---- MODULE Spec2Model ----
(***************************************************************************)
(* Model of main.py of Typora-image-uploader: the image compressor         *)
(* (compress_image), the OneDrive client (Drive) with its token refresh,   *)
(* and the per-argument loop of the command line entry point.              *)
(*                                                                         *)
(* Paths are sequences of tokens ("temp", "/", "a", ".png"), so that       *)
(* os.path.basename, os.path.splitext, os.path.join and str.replace are    *)
(* computed on the tokens the way the library computes them on characters. *)
(* Time is in seconds, as returned by int(time.time()).                    *)
(***************************************************************************)
EXTENDS Integers, Sequences, FiniteSets, TLC

VARIABLES
    args,                 \* args.args: the positional arguments
    idx,                  \* position of the for loop in args.args (1-based)
    pc,                   \* the statement the script is about to execute
    img_path,             \* loop variable img_path (rebound at line 146)
    compressed_img_path,  \* result of compress_image (line 149)
    upload_info,          \* result of drive.upload_by_path (line 151)
    out_dir,              \* the output_dir handed to compress_image
    fs,                   \* local file system: path -> content
    fs_before,            \* fs as it was when compress_image was last entered
    config,               \* Drive.config, the in-memory credential record
    saved,                \* config.yaml on disk
    now,                  \* the last value read from time.time()
    issued,               \* number of token pairs the token endpoint has issued
    remote,               \* OneDrive: file name under host_img_base_dir -> content
    printed,              \* lines written to stdout
    trace,                \* history: the steps executed, in order
    auth,                 \* history: one record per get_access_token call
    sent                  \* history: one record per PUT request sent

vars == <<args, idx, pc, img_path, compressed_img_path, upload_info, out_dir,
          fs, fs_before, config, saved, now, issued, remote, printed, trace,
          auth, sent>>

(***************************************************************************)
(* Bounds of the model.                                                    *)
(***************************************************************************)
MaxArgs == 2        \* longest argument list
MaxSize == 3        \* largest encoded size drawn for a candidate encoding
MaxTick == 1        \* most seconds that pass between two clock readings
T0 == 1000          \* the clock when the process starts
ExpiresIn == 3600   \* expires_in returned by the token endpoint

(***************************************************************************)
(* Program constants.                                                      *)
(***************************************************************************)
Margin == 60
img_url_base == "https://img.0a0.moe/od/"
TempDir == <<"temp">>
NoPath == <<>>

(***************************************************************************)
(* Path functions.                                                         *)
(***************************************************************************)
Exts == {".png", ".gif", ".webp", ".jpg"}

RECURSIVE LastSlash(_, _)
LastSlash(p, n) ==
    IF n = 0 THEN 0 ELSE IF p[n] = "/" THEN n ELSE LastSlash(p, n - 1)

\* os.path.basename: what follows the last separator
Basename(p) == SubSeq(p, LastSlash(p, Len(p)) + 1, Len(p))

\* os.path.join(dir, filename) for a relative filename
Join(d, f) == d \o <<"/">> \o f

\* os.path.splitext(filename)[0]: the name without its last extension; a
\* name that is only an extension (".png") has no extension to strip
Splitext(f) ==
    IF Len(f) >= 2 /\ f[Len(f)] \in Exts THEN SubSeq(f, 1, Len(f) - 1) ELSE f

\* str.replace('.webp', '_lossless.webp'): every occurrence is replaced
RECURSIVE ReplaceWebp(_)
ReplaceWebp(p) ==
    IF p = <<>> THEN <<>>
    ELSE IF Head(p) = ".webp"
         THEN <<"_lossless", ".webp">> \o ReplaceWebp(Tail(p))
         ELSE <<Head(p)>> \o ReplaceWebp(Tail(p))

(***************************************************************************)
(* File contents.  data names the picture, mode how the file was encoded   *)
(* ("orig" for a file that was not produced by the compressor), size is    *)
(* os.path.getsize, and ls / ly are the sizes the WebP encoder produces    *)
(* for this picture losslessly and at quality 80.                          *)
(***************************************************************************)
Content(fmt, data, size, ls, ly) ==
    [fmt |-> fmt, data |-> data, mode |-> "orig", size |-> size, ls |-> ls, ly |-> ly]

Empty == Content("BAD", "empty", 0, 0, 0)

\* Image.open(path).format, or a raise for a missing or undecodable file
CanOpen(f, p) == p \in DOMAIN f /\ f[p].fmt # "BAD"

\* image.save(path, 'webp', lossless=True / quality=q)
Encode(img, mode) ==
    [fmt |-> "WEBP", data |-> img.data, mode |-> mode,
     size |-> IF mode = "lossless" THEN img.ls ELSE img.ly,
     ls |-> img.ls, ly |-> img.ly]

WriteFile(f, p, c) == [q \in DOMAIN f \cup {p} |-> IF q = p THEN c ELSE f[q]]
RemoveFile(f, p) == [q \in DOMAIN f \ {p} |-> f[q]]
RenameFile(f, p, q) == WriteFile(RemoveFile(f, p), q, f[p])

(***************************************************************************)
(* compress_image                                                          *)
(***************************************************************************)
\* shutil.copy raises SameFileError when source and destination are one file
SameFile(p, q) == p = q

\* the comparison of line 49 turned around
KeepLarger(lossless_size, lossy_size) == lossless_size > lossy_size

\* line 49: the lossless candidate is kept only when strictly smaller
KeepLossless(lossless_size, lossy_size) == lossless_size < lossy_size

Raised(f) == [ok |-> FALSE, fs |-> f, path |-> NoPath]
Returned(f, p) == [ok |-> TRUE, fs |-> f, path |-> p]

\* lines 35-56, for an image that was opened and is not a GIF
CompressWebp(f, input_path, output_dir) ==
    LET image == f[input_path]
        filename == Splitext(Basename(input_path)) \o <<".webp">>
        output_path == Join(output_dir, filename)
        lossless_output_path == ReplaceWebp(output_path)
        f1 == WriteFile(f, lossless_output_path, Encode(image, "lossless"))
        lossless_size == f1[lossless_output_path].size
        f2 == WriteFile(f1, output_path, Encode(image, "lossy"))
        lossy_size == f2[output_path].size
    IN  IF KeepLossless(lossless_size, lossy_size)
        THEN Returned(RenameFile(RemoveFile(f2, output_path),
                                 lossless_output_path, output_path), output_path)
        ELSE Returned(RemoveFile(f2, lossless_output_path), output_path)

\* lines 16-56: the file system after the call and the returned path, or a
\* raise (Image.open on a missing or undecodable file, shutil.copy onto itself)
compress_image(f, input_path, output_dir) ==
    LET filename == Basename(input_path)
    IN  IF ~CanOpen(f, input_path) THEN Raised(f)
        ELSE IF f[input_path].fmt = "GIF"
        THEN LET output_path == Join(output_dir, filename)
             IN  IF SameFile(input_path, output_path) THEN Raised(f)
                 ELSE Returned(WriteFile(f, output_path, f[input_path]), output_path)
        ELSE CompressWebp(f, input_path, output_dir)

(***************************************************************************)
(* The command line arguments.  s is the argument as typed; http is        *)
(* s.startswith('http'); jks and moe are 'img.jks.moe' in s and            *)
(* 'img.0a0.moe' in s; path is s as a path when it names a local file.     *)
(***************************************************************************)
Arg(s, http, jks, moe, path) ==
    [s |-> s, http |-> http, jks |-> jks, moe |-> moe, path |-> path]

ArgUniverse ==
    { Arg("https://img.0a0.moe/od/ab1", TRUE, FALSE, TRUE, NoPath),
      Arg("https://img.jks.moe/x.png", TRUE, TRUE, FALSE, NoPath),
      Arg("https://example.com/p.png", TRUE, FALSE, FALSE, NoPath),
      Arg("https://example.com/g.gif", TRUE, FALSE, FALSE, NoPath),
      Arg("https://example.com/gone.png", TRUE, FALSE, FALSE, NoPath),
      Arg("pics/a.png", FALSE, FALSE, FALSE, <<"pics", "/", "a", ".png">>),
      Arg("pics/b.gif", FALSE, FALSE, FALSE, <<"pics", "/", "b", ".gif">>),
      Arg("pics/img.0a0.moe.png", FALSE, FALSE, TRUE,
          <<"pics", "/", "img.0a0.moe", ".png">>) }

\* what requests.get(url).content is for the URLs of the universe; a URL that
\* answers 404 yields a body that is no image
Web(s) ==
    CASE s = "https://example.com/p.png" -> Content("PNG", "p", 5, 2, 1)
      [] s = "https://example.com/g.gif" -> Content("GIF", "g", 4, 3, 2)
      [] OTHER -> Content("BAD", "404", 1, 0, 0)

\* hashlib.md5(url.encode()).hexdigest(): a name without separator or extension
Md5(s) ==
    CASE s = "https://example.com/p.png" -> "5f1d"
      [] s = "https://example.com/g.gif" -> "a3c0"
      [] s = "https://example.com/gone.png" -> "9e77"
      [] OTHER -> "0b42"

\* the files on disk when the script starts
LocalFiles ==
    [p \in { <<"pics", "/", "a", ".png">>, <<"pics", "/", "b", ".gif">>,
             <<"pics", "/", "img.0a0.moe", ".png">> } |->
        CASE p = <<"pics", "/", "a", ".png">> -> Content("PNG", "a", 5, 1, 2)
          [] p = <<"pics", "/", "b", ".gif">> -> Content("GIF", "b", 4, 2, 2)
          [] OTHER -> Content("PNG", "m", 5, 2, 2)]

RECURSIVE SeqsUpTo(_, _)
SeqsUpTo(S, n) ==
    IF n = 0 THEN {<<>>}
    ELSE LET shorter == SeqsUpTo(S, n - 1)
         IN  shorter \cup {Append(q, x) : q \in {r \in shorter : Len(r) = n - 1}, x \in S}

(***************************************************************************)
(* Drive: the credential record and the token refresh                      *)
(***************************************************************************)
Credentials(a, r, e) == [access_token |-> a, refresh_token |-> r, expires_at |-> e]

\* expires_at values config.yaml may hold when the process starts
InitExpires == {T0 - Margin - 1, T0 - Margin, T0 - Margin + 1, T0 + ExpiresIn}

\* a reading of time.time() taken after the reading t
Clock(t) == {t + d : d \in 0..MaxTick}

\* what the token endpoint may answer to the n-th refresh: no answer, a body
\* that is not JSON, or JSON holding a prefix of the three fields read
RefreshResponses(n) ==
    { [kind |-> k, keys |-> {}, access_token |-> n, refresh_token |-> n,
       expires_in |-> ExpiresIn] : k \in {"neterr", "malformed"} }
    \cup
    { [kind |-> "json", keys |-> ks, access_token |-> n, refresh_token |-> n,
       expires_in |-> ExpiresIn] :
         ks \in { {}, {"access_token"}, {"access_token", "refresh_token"},
                  {"access_token", "refresh_token", "expires_in"} } }

\* lines 70-87; t is the clock read at line 85.  The record is written to
\* config.yaml only when all three fields were read.
refresh_access_token(cfg, sv, r, t) ==
    IF r.kind # "json" \/ "access_token" \notin r.keys
    THEN [ok |-> FALSE, config |-> cfg, saved |-> sv]
    ELSE LET c1 == [cfg EXCEPT !.access_token = r.access_token]
         IN  IF "refresh_token" \notin r.keys
             THEN [ok |-> FALSE, config |-> c1, saved |-> sv]
             ELSE LET c2 == [c1 EXCEPT !.refresh_token = r.refresh_token]
                  IN  IF "expires_in" \notin r.keys
                      THEN [ok |-> FALSE, config |-> c2, saved |-> sv]
                      ELSE LET c3 == [c2 EXCEPT !.expires_at = t + r.expires_in]
                           IN  [ok |-> TRUE, config |-> c3, saved |-> c3]

\* the margin of line 94 applied ahead of the expiry instead of behind it
RefreshAhead(expires_at, t) == expires_at < t + Margin

\* line 94: the condition under which the token is refreshed
NeedsRefresh(expires_at, t) == expires_at < t - Margin

\* lines 89-96; t1 is the clock read at line 94, r and t2 the answer of the
\* token endpoint and the clock read at line 85 when a refresh is made
get_access_token(cfg, sv, t1, r, t2) ==
    IF NeedsRefresh(cfg.expires_at, t1)
    THEN LET res == refresh_access_token(cfg, sv, r, t2)
         IN  [ok |-> res.ok, config |-> res.config, saved |-> res.saved,
              refreshed |-> 1, token |-> res.config.access_token, t |-> t2]
    ELSE [ok |-> TRUE, config |-> cfg, saved |-> sv,
          refreshed |-> 0, token |-> cfg.access_token, t |-> t1]

(***************************************************************************)
(* Drive.upload_by_path                                                    *)
(***************************************************************************)
Ids == { <<"A", "B", "1">>, <<"c", "D", "2">> }
NoId == <<>>

\* what the Graph endpoint may answer to the PUT: no answer, a body that is
\* not JSON, an error object (no id), or the item created, with its id
UploadResponses ==
    { [kind |-> "neterr", status |-> 0, has_id |-> FALSE, id |-> NoId],
      [kind |-> "malformed", status |-> 502, has_id |-> FALSE, id |-> NoId],
      [kind |-> "json", status |-> 401, has_id |-> FALSE, id |-> NoId] }
    \cup
    { [kind |-> "json", status |-> 201, has_id |-> TRUE, id |-> d] : d \in Ids }

\* lines 113-116: s.put raises without an answer, r.json() on a body that is
\* not JSON; the status is never looked at
PutRaises(resp) == resp.kind \in {"neterr", "malformed"}

\* the service stores the file when it answers 201
Stored(resp) == resp.status = 201

(***************************************************************************)
(* The image loop of the script                                            *)
(***************************************************************************)
\* line 141
IsHosted(a) == a.jks \/ a.moe

\* str.lower() on the characters an id is made of
LowerChar(c) ==
    CASE c = "A" -> "a" [] c = "B" -> "b" [] c = "C" -> "c" [] c = "D" -> "d"
      [] OTHER -> c
Lower(w) == [k \in DOMAIN w |-> LowerChar(w[k])]

\* line 153 without .lower()
ImgUrlAsReturned(file_id) == [base |-> img_url_base, rest |-> file_id]

\* a line of output: the argument itself (line 142) or the public URL (153)
ArgLine(a) == [base |-> "", rest |-> <<a.s>>]
ImgUrl(file_id) == [base |-> img_url_base, rest |-> Lower(file_id)]

\* line 152 reading the id with a default instead of raising
IdDefaulted(info) == FALSE

\* line 152: upload_info['id'] raises KeyError when the answer has no id
IdMissing(info) == ~info.has_id

\* lines 154 and 155 exchanged: the local copy is removed before the URL is printed
NextPcRemoveFirst(step) ==
    CASE step = "fetch" -> "compress"
      [] step = "compress" -> "upload"
      [] step = "upload" -> "remove"
      [] step = "remove" -> "print"
      [] step = "print" -> "loop"

\* the statement order of the loop body, lines 144-155
NextPc(step) ==
    CASE step = "fetch" -> "compress"
      [] step = "compress" -> "upload"
      [] step = "upload" -> "print"
      [] step = "print" -> "remove"
      [] step = "remove" -> "loop"

\* line 143 as continue: the loop goes on with the next argument
HostedContinue(i) == [pc |-> "loop", idx |-> i + 1]

\* line 143: break leaves the loop
HostedExit(i) == [pc |-> "done", idx |-> i]

Event(step, i, ok) == [step |-> step, i |-> i, ok |-> ok]
NoInfo == [has_id |-> FALSE, id |-> NoId]

Init ==
    /\ args \in SeqsUpTo(ArgUniverse, MaxArgs)
    /\ idx = 1
    /\ pc = "loop"
    /\ img_path = NoPath
    /\ compressed_img_path = NoPath
    /\ upload_info = NoInfo
    /\ out_dir = TempDir
    /\ fs = LocalFiles
    /\ fs_before = LocalFiles
    /\ \E e \in InitExpires : config = Credentials(0, 0, e)
    /\ saved = config
    /\ now = T0
    /\ issued = 0
    /\ remote = << >>
    /\ printed = << >>
    /\ trace = << >>
    /\ auth = << >>
    /\ sent = << >>

Abort == pc' = "aborted" /\ UNCHANGED idx

Goto(step) ==
    /\ pc' = NextPc(step)
    /\ idx' = IF NextPc(step) = "loop" THEN idx + 1 ELSE idx

AtArg == pc = "loop" /\ idx <= Len(args)

\* line 137: the argument list is exhausted
Finish ==
    /\ pc = "loop" /\ idx > Len(args)
    /\ pc' = "done"
    /\ UNCHANGED <<args, idx, img_path, compressed_img_path, upload_info, out_dir,
                   fs, fs_before, config, saved, now, issued, remote, printed,
                   trace, auth, sent>>

\* lines 139-143: an already hosted URL is printed and the loop is left
Hosted ==
    /\ AtArg /\ args[idx].http /\ IsHosted(args[idx])
    /\ printed' = Append(printed, ArgLine(args[idx]))
    /\ trace' = Append(trace, Event("hosted", idx, TRUE))
    /\ pc' = HostedExit(idx).pc
    /\ idx' = HostedExit(idx).idx
    /\ UNCHANGED <<args, img_path, compressed_img_path, upload_info, out_dir, fs,
                   fs_before, config, saved, now, issued, remote, auth, sent>>

\* lines 144-148: open() creates temp/<md5>, then the body is fetched and
\* written; requests.get raising leaves the empty file behind
Fetch ==
    /\ AtArg /\ args[idx].http /\ ~IsHosted(args[idx])
    /\ LET p == Join(TempDir, Basename(<<Md5(args[idx].s)>>))
       IN  /\ img_path' = p
           /\ \E got \in BOOLEAN :
                /\ fs' = WriteFile(fs, p, IF got THEN Web(args[idx].s) ELSE Empty)
                /\ trace' = Append(trace, Event("fetch", idx, got))
                /\ IF got THEN pc' = NextPc("fetch") /\ idx' = idx ELSE Abort
    /\ UNCHANGED <<args, compressed_img_path, upload_info, out_dir, fs_before,
                   config, saved, now, issued, remote, printed, auth, sent>>

\* line 149, reached from line 148 or, for a local path, from line 139
Compress ==
    /\ pc = "compress" \/ (AtArg /\ ~args[idx].http)
    /\ LET input == IF pc = "compress" THEN img_path ELSE args[idx].path
           res == compress_image(fs, input, out_dir)
       IN  /\ img_path' = input
           /\ fs_before' = fs
           /\ fs' = res.fs
           /\ compressed_img_path' = res.path
           /\ trace' = Append(trace, Event("compress", idx, res.ok))
           /\ IF res.ok THEN Goto("compress") ELSE Abort
    /\ UNCHANGED <<args, upload_info, out_dir, config, saved, now, issued, remote,
                   printed, auth, sent>>

\* the PUT of line 113 once the header is built
Put(i, t, cfg, resp) ==
    LET name == Basename(compressed_img_path)
    IN  /\ sent' = Append(sent, [i |-> i, t |-> t, token |-> cfg.access_token,
                                 expires_at |-> cfg.expires_at, resp |-> resp,
                                 name |-> name])
        /\ remote' = IF Stored(resp)
                     THEN WriteFile(remote, name, fs[compressed_img_path])
                     ELSE remote
        /\ upload_info' = IF PutRaises(resp) THEN NoInfo
                          ELSE [has_id |-> resp.has_id, id |-> resp.id]
        /\ trace' = Append(trace, Event("upload", i, ~PutRaises(resp)))
        /\ IF PutRaises(resp) THEN Abort ELSE Goto("upload")

\* line 151: drive.upload_by_path, with the header built by generate_header
\* (get_access_token, and refresh_access_token when the token is refreshed)
UploadWith(t1, r, t2) ==
    LET got == get_access_token(config, saved, t1, r, t2)
    IN  /\ config' = got.config
        /\ saved' = got.saved
        /\ now' = got.t
        /\ issued' = issued + got.refreshed
        /\ auth' = Append(auth, [i |-> idx, t |-> t1, before |-> config,
                                 saved_before |-> saved, refreshed |-> got.refreshed,
                                 resp |-> r, t2 |-> got.t, after |-> got.config,
                                 saved_after |-> got.saved, ok |-> got.ok])
        /\ IF got.ok
           THEN \E resp \in UploadResponses : Put(idx, got.t, got.config, resp)
           ELSE /\ trace' = Append(trace, Event("upload", idx, FALSE))
                /\ Abort
                /\ UNCHANGED <<sent, remote, upload_info>>

NoRefresh == [kind |-> "none", keys |-> {}, access_token |-> 0, refresh_token |-> 0,
              expires_in |-> 0]

Upload ==
    /\ pc = "upload"
    /\ \E t1 \in Clock(now) :
         IF NeedsRefresh(config.expires_at, t1)
         THEN \E r \in RefreshResponses(issued + 1), t2 \in Clock(t1) :
                UploadWith(t1, r, t2)
         ELSE UploadWith(t1, NoRefresh, t1)
    /\ UNCHANGED <<args, img_path, compressed_img_path, out_dir, fs, fs_before,
                   printed>>

\* lines 152-154
PrintUrl ==
    /\ pc = "print"
    /\ IF IdMissing(upload_info)
       THEN /\ trace' = Append(trace, Event("print", idx, FALSE))
            /\ Abort
            /\ UNCHANGED printed
       ELSE /\ trace' = Append(trace, Event("print", idx, TRUE))
            /\ printed' = Append(printed, ImgUrl(upload_info.id))
            /\ Goto("print")
    /\ UNCHANGED <<args, img_path, compressed_img_path, upload_info, out_dir, fs,
                   fs_before, config, saved, now, issued, remote, auth, sent>>

\* line 155
Remove ==
    /\ pc = "remove"
    /\ fs' = RemoveFile(fs, compressed_img_path)
    /\ trace' = Append(trace, Event("remove", idx, TRUE))
    /\ Goto("remove")
    /\ UNCHANGED <<args, img_path, compressed_img_path, upload_info, out_dir,
                   fs_before, config, saved, now, issued, remote, printed, auth,
                   sent>>

Next == Finish \/ Hosted \/ Fetch \/ Compress \/ Upload \/ PrintUrl \/ Remove

Spec == Init /\ [][Next]_vars

(***************************************************************************)
(* compress_image on its own: every input path, format, pair of candidate  *)
(* sizes and output directory of the sets below, with or without a file    *)
(* already standing at the output path.                                    *)
(***************************************************************************)
UnitPaths ==
    { <<"pics", "/", "a", ".png">>, <<"pics", "/", "b", ".gif">>,
      <<"temp", "/", "c", ".gif">>, <<"temp", "/", "e", ".webp">>,
      <<"temp", "/", "5f1d">>, <<"pics", "/", "a", ".webp", ".png">> }

UnitDirs == { <<"temp">>, <<"out">> }

InitCompress ==
    /\ args = << >>
    /\ idx = 1
    /\ pc = "call"
    /\ img_path \in UnitPaths
    /\ compressed_img_path = NoPath
    /\ upload_info = NoInfo
    /\ out_dir \in UnitDirs
    /\ \E fmt \in {"PNG", "GIF", "BAD"}, ls \in 1..MaxSize, ly \in 1..MaxSize,
          stale \in BOOLEAN :
         LET f == WriteFile(<< >>, img_path, Content(fmt, "x", MaxSize + 1, ls, ly))
             old == Join(out_dir, Splitext(Basename(img_path)) \o <<".webp">>)
         IN  fs = IF stale /\ old # img_path
                  THEN WriteFile(f, old, Content("WEBP", "old", 1, 1, 1))
                  ELSE f
    /\ fs_before = fs
    /\ config = Credentials(0, 0, T0 + ExpiresIn)
    /\ saved = config
    /\ now = T0
    /\ issued = 0
    /\ remote = << >>
    /\ printed = << >>
    /\ trace = << >>
    /\ auth = << >>
    /\ sent = << >>

\* one call compress_image(img_path, out_dir)
CompressCall ==
    /\ pc = "call"
    /\ LET res == compress_image(fs, img_path, out_dir)
       IN  /\ fs_before' = fs
           /\ fs' = res.fs
           /\ compressed_img_path' = res.path
           /\ trace' = Append(trace, Event("compress", idx, res.ok))
           /\ pc' = IF res.ok THEN "returned" ELSE "raised"
    /\ UNCHANGED <<args, idx, img_path, upload_info, out_dir, config, saved, now,
                   issued, remote, printed, auth, sent>>

NextCompress == CompressCall

SpecCompress == InitCompress /\ [][NextCompress]_vars

(***************************************************************************)
(* Properties                                                              *)
(***************************************************************************)
Min(a, b) == IF a <= b THEN a ELSE b

\* the last step executed was a call of compress_image on a decodable image
JustCompressed ==
    /\ trace # << >>
    /\ trace[Len(trace)].step = "compress"
    /\ CanOpen(fs_before, img_path)

\* C5: for a non-GIF input with candidate sizes (ls, ly), compress_image
\* returns outputDir/<stem>.webp, that file has size min(ls, ly), the
\* '_lossless.webp' intermediate is gone, and the returned file is the only
\* file the call has written or changed.
C5_SmallerCandidateKept ==
    (JustCompressed /\ fs_before[img_path].fmt # "GIF") =>
        LET image == fs_before[img_path]
            expected == Join(out_dir, Splitext(Basename(img_path)) \o <<".webp">>)
        IN  /\ trace[Len(trace)].ok
            /\ compressed_img_path = expected
            /\ expected \in DOMAIN fs
            /\ fs[expected].fmt = "WEBP"
            /\ fs[expected].data = image.data
            /\ fs[expected].size = Min(image.ls, image.ly)
            /\ fs[expected].size <= image.ls /\ fs[expected].size <= image.ly
            /\ ReplaceWebp(expected) \notin DOMAIN fs
            /\ \A q \in (DOMAIN fs \cup DOMAIN fs_before) \ {expected, ReplaceWebp(expected)} :
                 q \in DOMAIN fs /\ q \in DOMAIN fs_before /\ fs[q] = fs_before[q]

\* C5 witness: a non-GIF image whose lossless candidate is strictly smaller
\* was compressed over a stale output file.
C5_Witness ==
    /\ JustCompressed
    /\ pc = "returned"
    /\ fs_before[img_path].fmt = "PNG"
    /\ fs_before[img_path].ls < fs_before[img_path].ly
    /\ compressed_img_path \in DOMAIN fs_before
    /\ fs[compressed_img_path].mode = "lossless"

\* C6: for a GIF input, inside or outside outputDir, compress_image returns
\* outputDir/<original filename> and the file there is identical to the input.
C6_GifCopiedVerbatim ==
    (JustCompressed /\ fs_before[img_path].fmt = "GIF") =>
        LET expected == Join(out_dir, Basename(img_path))
        IN  /\ trace[Len(trace)].ok
            /\ compressed_img_path = expected
            /\ expected \in DOMAIN fs
            /\ fs[expected] = fs_before[img_path]

RemoteArg(a) == a.http /\ ~(a.jks \/ a.moe)
HostedArg(a) == a.http /\ (a.jks \/ a.moe)

\* C1: whenever get_access_token is entered with expires_at <= now - 60, the
\* boundary expires_at = now - 60 included, one refresh call is issued, and
\* when it succeeds the new triple (access_token, refresh_token, now +
\* expires_in) is in config.yaml when get_access_token returns.
C1_RefreshAtOrBelowThreshold ==
    \A k \in 1..Len(auth) :
        auth[k].before.expires_at <= auth[k].t - Margin =>
            /\ auth[k].refreshed = 1
            /\ auth[k].ok =>
                 auth[k].saved_after =
                     Credentials(auth[k].resp.access_token, auth[k].resp.refresh_token,
                                 auth[k].t2 + auth[k].resp.expires_in)

\* C2: no PUT is sent with a token whose expires_at is earlier than the time
\* at which it is sent.
C2_NoExpiredTokenSent ==
    \A k \in 1..Len(sent) : sent[k].expires_at >= sent[k].t

\* C3: once a remote, not hosted argument has been processed, neither
\* temp/<md5(url)> nor the compressed file exists and one line was printed
\* for it; and a downloaded GIF is processed like any other download.
C3_RemoteLeavesNoFiles ==
    /\ (pc = "loop" /\ idx > 1 /\ RemoteArg(args[idx - 1])) =>
          /\ Join(TempDir, <<Md5(args[idx - 1].s)>>) \notin DOMAIN fs
          /\ compressed_img_path \notin DOMAIN fs
          /\ Len(printed) = idx - 1
    /\ (JustCompressed /\ idx <= Len(args) /\ RemoteArg(args[idx]) /\ fs_before[img_path].fmt = "GIF") =>
          trace[Len(trace)].ok

\* C4: a step taken for an argument that starts with http and contains
\* img.0a0.moe or img.jks.moe is the printing of that argument unchanged, and
\* it is the last step of the run: nothing is downloaded, compressed,
\* refreshed, uploaded or printed for it or for any later argument.
C4_HostedStopsTheRun ==
    \A j \in 1..Len(trace) :
        HostedArg(args[trace[j].i]) =>
            /\ trace[j].step = "hosted"
            /\ j = Len(trace)
            /\ pc = "done"
            /\ Len(printed) = trace[j].i
            /\ printed[Len(printed)] = [base |-> "", rest |-> <<args[trace[j].i].s>>]
            /\ \A m \in 1..Len(trace) : trace[m].i <= trace[j].i
            /\ \A m \in 1..Len(auth) : auth[m].i < trace[j].i
            /\ \A m \in 1..Len(sent) : sent[m].i < trace[j].i

\* C4 witness: the run stopped at a hosted first argument although a second
\* argument, a local image, follows it.
C4_Witness ==
    /\ pc = "done"
    /\ Len(args) >= 2
    /\ HostedArg(args[1])
    /\ ~args[2].http
    /\ Len(trace) = 1 /\ trace[1].step = "hosted"

\* C7: a call of get_access_token entered with expires_at > now - 60 issues
\* no refresh call and leaves the credential record and config.yaml as they
\* were.
C7_NoRefreshWithinMargin ==
    \A k \in 1..Len(auth) :
        auth[k].before.expires_at > auth[k].t - Margin =>
            /\ auth[k].refreshed = 0
            /\ auth[k].ok
            /\ auth[k].after = auth[k].before
            /\ auth[k].saved_after = auth[k].saved_before

\* C7 witness: an upload was sent under a record that had expired less than
\* 60 seconds before.
C7_Witness ==
    \E k \in 1..Len(auth) :
        /\ auth[k].before.expires_at > auth[k].t - Margin
        /\ auth[k].before.expires_at < auth[k].t
        /\ \E m \in 1..Len(sent) : sent[m].i = auth[k].i

RefreshFailed(a) ==
    /\ a.refreshed = 1
    /\ a.resp.kind # "json" \/ a.resp.keys # {"access_token", "refresh_token", "expires_in"}

UploadFailed(u) == u.resp.kind # "json" \/ u.resp.status # 201 \/ ~u.resp.has_id

Rank(step) ==
    CASE step = "hosted" -> 1 [] step = "fetch" -> 1 [] step = "compress" -> 2
      [] step = "upload" -> 3 [] step = "print" -> 4 [] step = "remove" -> 5

Did(step, i) == \E j \in 1..Len(trace) : trace[j] = [step |-> step, i |-> i, ok |-> TRUE]

\* C9: the steps are executed in the order fetch (for a remote argument),
\* compress, upload, print, remove for one argument, and no step of an
\* argument is executed before every step of the argument before it is done.
C9_StrictlySequential ==
    /\ \A j, k \in 1..Len(trace) :
         j < k => \/ trace[j].i < trace[k].i
                  \/ trace[j].i = trace[k].i /\ Rank(trace[j].step) < Rank(trace[k].step)
    /\ \A k \in 1..Len(trace) :
         /\ trace[k].step = "fetch" <=> (k = 1 \/ trace[k - 1].i < trace[k].i) /\ RemoteArg(args[trace[k].i])
         /\ trace[k].i > 1 =>
              LET i == trace[k].i - 1
              IN  /\ Did("fetch", i) <=> args[i].http
                  /\ Did("compress", i) /\ Did("upload", i)
                  /\ Did("print", i) /\ Did("remove", i)
    /\ \A k \in 1..Len(trace) : trace[k].i <= idx

\* C9 witness: a remote image was processed to the end and the second
\* argument's compression has been executed after it.
C9_Witness ==
    /\ Len(args) >= 2 /\ args[1].http
    /\ Did("fetch", 1) /\ Did("remove", 1) /\ Did("compress", 2)

Started == {trace[j].i : j \in 1..Len(trace)}

\* C10: the printed lines are aligned with a prefix of the argument list:
\* there are no more lines than arguments started, and line k is argument k
\* itself when it is an already hosted URL and otherwise the public URL made
\* of the lower-cased id that the upload of argument k returned, printed
\* after that upload returned.
C10_OutputAlignedWithArgs ==
    /\ Len(printed) <= Cardinality(Started)
    /\ \A k \in 1..Len(printed) :
         /\ k \in Started
         /\ IF HostedArg(args[k])
            THEN printed[k] = [base |-> "", rest |-> <<args[k].s>>]
            ELSE \E m \in 1..Len(sent) :
                    /\ sent[m].i = k /\ sent[m].resp.has_id
                    /\ \A n \in 1..Len(sent) : sent[n].i = k => n = m
                    /\ printed[k] = [base |-> img_url_base,
                                     rest |-> [c \in DOMAIN sent[m].resp.id |->
                                                 LowerChar(sent[m].resp.id[c])]]
                    /\ \E u, q \in 1..Len(trace) :
                          /\ u < q
                          /\ trace[u] = [step |-> "upload", i |-> k, ok |-> TRUE]
                          /\ trace[q] = [step |-> "print", i |-> k, ok |-> TRUE]

\* C10 witness: the first line is the public URL of an upload whose id held
\* upper-case letters and the second line is a hosted URL.
C10_Witness ==
    /\ Len(printed) = 2
    /\ HostedArg(args[2])
    /\ printed[1].base = img_url_base
    /\ sent[1].resp.id # printed[1].rest

====
